---- MODULE Spec2Model ----
(***************************************************************************)
(* A model of qt-repo-cache: the incremental crawler of cache_updates.py   *)
(* (update_xml_files, spider_folder, fetch_file_directory, __main__) and   *)
(* the directory index of cached_directory.py (CachedDirectory).           *)
(*                                                                         *)
(* Folder names are strings; a date is a whole number of minutes since the *)
(* epoch (listing pages carry minute resolution, "%d-%b-%Y %H:%M"); a      *)
(* stored timestamp is a number of seconds.                                *)
(***************************************************************************)
EXTENDS Integers, Sequences, FiniteSets, TLC

(***************************************************************************)
(* Bounds of the model.                                                    *)
(***************************************************************************)
\* the latest modification date (in minutes) a remote entry may carry
MaxTime == 2
\* the number of runs of the job in one behaviour
MaxRuns == 2

(***************************************************************************)
(* Strings.                                                                *)
(***************************************************************************)
\* str.startswith
StartsWith(s, p) == Len(p) <= Len(s) /\ SubSeq(s, 1, Len(p)) = p

\* str.endswith
EndsWith(s, p) == Len(p) <= Len(s) /\ SubSeq(s, Len(s) - Len(p) + 1, Len(s)) = p

\* `sub in s` for strings
HasSubstring(s, sub) ==
    \E i \in 1..(Len(s) + 1) :
        /\ i + Len(sub) - 1 <= Len(s)
        /\ SubSeq(s, i, i + Len(sub) - 1) = sub

\* the character (a string of length one) at position i, "" past the end
CharAt(s, i) == IF i >= 1 /\ i <= Len(s) THEN SubSeq(s, i, i) ELSE ""

\* the regular expression class \d
IsDigit(c) == c \in {"0", "1", "2", "3", "4", "5", "6", "7", "8", "9"}

\* the characters folder names are made of, in code point order
Alphabet == "/0123456789_abcdefghijklmnopqrstuvwxyz"

\* the rank of a character in code point order
Rank(c) == CHOOSE i \in 1..Len(Alphabet) : SubSeq(Alphabet, i, i) = c

\* s < t in Python's string order (by code point, a proper prefix first)
RECURSIVE StrLess(_, _)
StrLess(s, t) ==
    IF Len(t) = 0 THEN FALSE
    ELSE IF Len(s) = 0 THEN TRUE
    ELSE IF CharAt(s, 1) # CharAt(t, 1) THEN Rank(CharAt(s, 1)) < Rank(CharAt(t, 1))
    ELSE StrLess(SubSeq(s, 2, Len(s)), SubSeq(t, 2, Len(t)))

\* sorted(S) for a set of strings
RECURSIVE Sorted(_)
Sorted(S) ==
    IF S = {} THEN <<>>
    ELSE LET m == CHOOSE x \in S : \A y \in S \ {x} : StrLess(x, y)
         IN  <<m>> \o Sorted(S \ {m})

\* set(list)
ToSet(seq) == {seq[i] : i \in 1..Len(seq)}

(***************************************************************************)
(* cache_updates.py: the folder classifier.                                *)
(***************************************************************************)
\* DEV_REGEX = ^qt\d_dev
DEV_REGEX(folder) ==
    /\ Len(folder) >= 7
    /\ StartsWith(folder, "qt")
    /\ IsDigit(CharAt(folder, 3))
    /\ SubSeq(folder, 4, 7) = "_dev"

\* UNSUPPORTED_FOLDER_REGEX = ^qt6_(\d{1,2})_(\d{1,2})
UNSUPPORTED_FOLDER_REGEX(folder) ==
    /\ StartsWith(folder, "qt6_")
    /\ IsDigit(CharAt(folder, 5))
    /\ \/ CharAt(folder, 6) = "_" /\ IsDigit(CharAt(folder, 7))
       \/ IsDigit(CharAt(folder, 6)) /\ CharAt(folder, 7) = "_" /\ IsDigit(CharAt(folder, 8))

HARDCODED_ALLOWED_TOOLS == {"sdktool"}

\* a classifier without the carve-out for the unsupported shape
is_qt_or_tools_any_shape(folder) ==
    IF DEV_REGEX(folder) THEN FALSE
    ELSE IF HasSubstring(folder, "backup") \/ HasSubstring(folder, "preview") THEN FALSE
    ELSE \/ StartsWith(folder, "tools_")
         \/ StartsWith(folder, "qt")
         \/ folder \in HARDCODED_ALLOWED_TOOLS

is_qt_or_tools(folder) ==
    IF DEV_REGEX(folder) THEN FALSE
    ELSE IF HasSubstring(folder, "backup") \/ HasSubstring(folder, "preview") THEN FALSE
    ELSE IF UNSUPPORTED_FOLDER_REGEX(folder) THEN FALSE
    ELSE \/ StartsWith(folder, "tools_")
         \/ StartsWith(folder, "qt")
         \/ folder \in HARDCODED_ALLOWED_TOOLS

(***************************************************************************)
(* cached_directory.py: CachedDirectory, as operators on the record of its *)
(* four sets.  A directory.json file is the record dir_file: whether it    *)
(* exists and its two sorted lists.                                        *)
(***************************************************************************)
NoDirectoryFile == [exists |-> FALSE, qt |-> <<>>, tools |-> <<>>]

\* CachedDirectory.__init__
CachedDirectory(dir_file) ==
    IF dir_file.exists
    THEN [previous_tools |-> ToSet(dir_file.tools), previous_qt |-> ToSet(dir_file.qt),
          new_tools |-> {}, new_qt |-> {}]
    ELSE [previous_tools |-> {}, previous_qt |-> {}, new_tools |-> {}, new_qt |-> {}]

\* CachedDirectory._previous_set
previous_set(cd, folder) ==
    IF StartsWith(folder, "qt") THEN cd.previous_qt ELSE cd.previous_tools

\* CachedDirectory._new_set
new_set(cd, folder) ==
    IF StartsWith(folder, "qt") THEN cd.new_qt ELSE cd.new_tools

\* a reuse that copies the folder alone, none of the folders nested under it
use_cached_exact(cd, folder) ==
    IF StartsWith(folder, "qt")
    THEN [cd EXCEPT !.new_qt = @ \cup {entry \in cd.previous_qt : entry = folder}]
    ELSE [cd EXCEPT !.new_tools = @ \cup {entry \in cd.previous_tools : entry = folder}]

\* a reuse that replaces the new set by the folders it copies
use_cached_replace(cd, folder) ==
    IF StartsWith(folder, "qt")
    THEN [cd EXCEPT !.new_qt = {entry \in cd.previous_qt : StartsWith(entry, folder)}]
    ELSE [cd EXCEPT !.new_tools = {entry \in cd.previous_tools : StartsWith(entry, folder)}]

\* CachedDirectory.use_cached_folder
use_cached_folder(cd, folder) ==
    IF StartsWith(folder, "qt")
    THEN [cd EXCEPT !.new_qt =
            @ \cup {entry \in cd.previous_qt : StartsWith(entry, folder)}]
    ELSE [cd EXCEPT !.new_tools =
            @ \cup {entry \in cd.previous_tools : StartsWith(entry, folder)}]

\* an add_folder that puts every folder into the qt set
add_to_qt(cd, folder) == [cd EXCEPT !.new_qt = @ \cup {folder}]

\* CachedDirectory.add_folder
add_folder(cd, folder) ==
    IF StartsWith(folder, "qt")
    THEN [cd EXCEPT !.new_qt = @ \cup {folder}]
    ELSE [cd EXCEPT !.new_tools = @ \cup {folder}]

\* CachedDirectory.__contains__
Contains(cd, folder) ==
    \E f \in previous_set(cd, folder) : f = folder \/ StartsWith(f, folder \o "/")

\* CachedDirectory.out, CachedDirectory.save: the text written to directory.json
out(cd) == [exists |-> TRUE, qt |-> Sorted(cd.new_qt), tools |-> Sorted(cd.new_tools)]

\* a prune that unlinks the file of every previously known folder
PruneAllPrevious(cd) == [qt |-> cd.previous_qt, tools |-> cd.previous_tools]

\* a prune that compares each previous set with the other new set
PruneAgainstOtherSet(cd) ==
    [qt |-> cd.previous_qt \ cd.new_tools, tools |-> cd.previous_tools \ cd.new_qt]

\* CachedDirectory.prune_removed_files: the files it unlinks, per set
PruneTargets(cd) ==
    [qt |-> cd.previous_qt \ cd.new_qt, tools |-> cd.previous_tools \ cd.new_tools]

(***************************************************************************)
(* The remote repository, as the pages fetch_http returns.                 *)
(*                                                                         *)
(* The online tree of a partition lists top-level folders; each is absent  *)
(* or present with a date and a kind: "xml" (the folder holds Updates.xml  *)
(* with a package of several archives), "empty" (it holds an Updates.xml   *)
(* with no package) or "sub" (it holds no Updates.xml but a subfolder      *)
(* that does, with a package of one archive).                              *)
(***************************************************************************)
\* iterate_hosts_targets: the (host, target) partitions, in order
Partitions == <<"linux/desktop", "windows/desktop">>

PartitionIds == 1..Len(Partitions)

\* the top-level folder names a partition's listing may show, in listing order
TopNames == <<(<<"qt1", "qt12">>), (<<"tools_a">>)>>

\* rows of every top-level listing that the classifier rejects
JunkRows == <<[folder |-> "licenses", date |-> MaxTime],
              [folder |-> "qt5_dev", date |-> MaxTime]>>

\* the subfolders a "sub" folder lists: one the classifier accepts, one it rejects
SubFolders == <<"qt_a", "qt_a_preview">>

Kinds == {"xml", "empty", "sub"}

Absent == [present |-> FALSE, date |-> 0, kind |-> "xml"]

EntryStates ==
    {Absent} \cup [present : {TRUE}, date : 1..MaxTime, kind : Kinds]

\* the states of one partition's remote tree
RemoteStates(p) == [ToSet(TopNames[p]) -> EntryStates]

\* the rows (name, date) of the top-level listing page of a partition
RECURSIVE ListingRows(_, _)
ListingRows(rem, names) ==
    IF names = <<>> THEN <<>>
    ELSE (IF rem[Head(names)].present
          THEN <<[folder |-> Head(names), date |-> rem[Head(names)].date]>>
          ELSE <<>>) \o ListingRows(rem, Tail(names))

TopListing(rem, p) == JunkRows \o ListingRows(rem, TopNames[p])

\* the first component of a path
TopOf(path) ==
    IF \E i \in 1..Len(path) : SubSeq(path, i, i) = "/"
    THEN SubSeq(path, 1, (CHOOSE i \in 1..Len(path) :
                            /\ SubSeq(path, i, i) = "/"
                            /\ \A j \in 1..(i - 1) : SubSeq(path, j, j) # "/") - 1)
    ELSE path

\* the page of a folder below the top level: whether it links Updates.xml, and
\* the names of the folders it lists
FolderPage(rem, path) ==
    LET top == TopOf(path) IN
    IF top \notin DOMAIN rem \/ ~rem[top].present
    THEN [xml |-> FALSE, rows |-> <<>>]
    ELSE IF path = top
    THEN IF rem[top].kind = "sub"
         THEN [xml |-> FALSE, rows |-> SubFolders]
         ELSE [xml |-> TRUE, rows |-> <<>>]
    ELSE IF rem[top].kind = "sub" /\ path = top \o "/" \o SubFolders[1]
    THEN [xml |-> TRUE, rows |-> <<>>]
    ELSE [xml |-> FALSE, rows |-> <<>>]

Package(version, archives) == [Version |-> version, DownloadableArchives |-> archives]

\* MetadataFactory._fetch_module_metadata: the packages of a manifest folder
Manifest(rem, path) ==
    LET top == TopOf(path) IN
    IF path = top /\ rem[top].kind = "xml"
    THEN [p \in {"qt.base"} |-> Package("1.0", "a.7z, b.7z")]
    ELSE IF path # top /\ rem[top].kind = "sub"
    THEN [p \in {"qt.addon"} |-> Package("2.0", "c.7z")]
    ELSE <<>>

\* the listing of a package's own folder: (file name, size) rows
ArchiveListing(version) ==
    <<[name |-> version \o "a.7z", size |-> "1M"],
      [name |-> version \o "b.7z", size |-> "2M"],
      [name |-> version \o "meta.7z", size |-> "1K"],
      [name |-> version \o "a.7z.sha1", size |-> "40"]>>

(***************************************************************************)
(* cache_updates.py: helpers of the crawl.                                 *)
(***************************************************************************)
\* dict assignment d[k] = v
Put(d, k, v) == [x \in (DOMAIN d) \cup {k} |-> IF x = k THEN v ELSE d[x]]

\* iter_folders(html_doc) with the default predicate is_qt_or_tools
iter_folders(listing) == SelectSeq(listing, LAMBDA r : is_qt_or_tools(r.folder))

\* str.removeprefix
removeprefix(s, prefix) ==
    IF StartsWith(s, prefix) THEN SubSeq(s, Len(prefix) + 1, Len(s)) ELSE s

\* insert_archive_sizes.should_use_7z
should_use_7z(filename_7z) ==
    EndsWith(filename_7z, ".7z") /\ ~EndsWith(filename_7z, "meta.7z")

\* whether insert_archive_sizes fetches the listing of a package's folder
NeedsArchiveSizes(package) == HasSubstring(package.DownloadableArchives, ",")

\* the archive_sizes dict insert_archive_sizes builds for one package
archive_sizes(version) ==
    LET used == SelectSeq(ArchiveListing(version), LAMBDA r : should_use_7z(r.name))
        keys == {removeprefix(used[i].name, version) : i \in 1..Len(used)}
    IN  [k \in keys |->
            used[CHOOSE i \in 1..Len(used) :
                    /\ removeprefix(used[i].name, version) = k
                    /\ \A j \in (i + 1)..Len(used) :
                          removeprefix(used[j].name, version) # k].size]

\* insert_archive_sizes: content with ArchiveSizes added to the packages of
\* several archives
insert_archive_sizes(content) ==
    [subfolder \in DOMAIN content |->
        IF ~NeedsArchiveSizes(content[subfolder])
        THEN content[subfolder]
        ELSE [Version |-> content[subfolder].Version,
              DownloadableArchives |-> content[subfolder].DownloadableArchives,
              ArchiveSizes |-> archive_sizes(content[subfolder].Version)]]

\* whether insert_archive_sizes performs a fetch for this content
FetchesArchiveSizes(content) ==
    \E subfolder \in DOMAIN content : NeedsArchiveSizes(content[subfolder])

\* the page spider_folder fetches for a folder: that of a partition's remote
\* tree, or that of a tree given page by page
fetch_page(rem, path) ==
    IF DOMAIN rem = {"pages"}
    THEN IF path \in DOMAIN rem.pages THEN rem.pages[path]
         ELSE [xml |-> FALSE, rows |-> <<>>]
    ELSE FolderPage(rem, path)

\* a walk that goes on below a folder that has Updates.xml
descends_always(page) == TRUE

\* line 174: the else of the test for the link to Updates.xml
descends(page) == ~page.xml

\* spider_folder: the folders it yields, in order
RECURSIVE spider_folder(_, _)
RECURSIVE SpiderEach(_, _, _)
spider_folder(rem, path_to_folder) ==
    LET page == fetch_page(rem, path_to_folder) IN
    (IF page.xml THEN <<path_to_folder>> ELSE <<>>)
        \o (IF descends(page)
            THEN SpiderEach(rem, path_to_folder,
                            SelectSeq(page.rows, LAMBDA folder : is_qt_or_tools(folder)))
            ELSE <<>>)

SpiderEach(rem, path_to_folder, folders) ==
    IF folders = <<>> THEN <<>>
    ELSE spider_folder(rem, path_to_folder \o "/" \o Head(folders))
            \o SpiderEach(rem, path_to_folder, Tail(folders))

\* spider_folder: the pages it fetches, in order
RECURSIVE spider_fetches(_, _)
RECURSIVE FetchesEach(_, _, _)
spider_fetches(rem, path_to_folder) ==
    LET page == fetch_page(rem, path_to_folder) IN
    <<path_to_folder>>
        \o (IF descends(page)
            THEN FetchesEach(rem, path_to_folder,
                             SelectSeq(page.rows, LAMBDA folder : is_qt_or_tools(folder)))
            ELSE <<>>)

FetchesEach(rem, path_to_folder, folders) ==
    IF folders = <<>> THEN <<>>
    ELSE spider_fetches(rem, path_to_folder \o "/" \o Head(folders))
            \o FetchesEach(rem, path_to_folder, Tail(folders))

\* datetime.timestamp of a date given in minutes
SecondsPerMinute == 60

\* save_last_update_dates.timestamp_or_zero; every date of the model is in the
\* range of the platform's time_t, where d.timestamp() does not raise
timestamp_or_zero(d) == d * SecondsPerMinute

\* datetime.fromtimestamp
fromtimestamp(ts) == ts \div SecondsPerMinute

PrettyKey(key) == key \o "_utc_pretty"

\* save_last_update_dates: the content written to last_updated.json
save_last_update_dates(dates) ==
    [k \in (DOMAIN dates) \cup {PrettyKey(key) : key \in DOMAIN dates} |->
        IF \E key \in DOMAIN dates : k = PrettyKey(key)
        THEN [pretty |-> dates[CHOOSE key \in DOMAIN dates : k = PrettyKey(key)]]
        ELSE timestamp_or_zero(dates[k])]

\* get_last_update_dates
get_last_update_dates(timestamps) ==
    [key \in {k \in DOMAIN timestamps : ~EndsWith(k, "_utc_pretty")} |->
        fromtimestamp(timestamps[key])]

(***************************************************************************)
(* The remote tree of a tree root (official_releases), as listing pages.   *)
(* The root lists a file r and a folder a/; a/ lists a file f and, when    *)
(* present, a folder b/ that lists a file g.  Every entry has its own      *)
(* date: a folder's date may be older than the dates of its content.       *)
(***************************************************************************)
TreeRootFolder == "official_releases"

\* the size label a file modified at `date` shows
SizeLabel(date) == CharAt("0123456789", date + 1) \o "K"

ParentRow == [name |-> "Parent Directory", date |-> 0, size |-> "-"]

TreeStates(dates) ==
    [r : dates, a : dates, f : dates, has_b : {FALSE}, b : {0}, g : {0}]
        \cup [r : dates, a : dates, f : dates, has_b : {TRUE}, b : dates, g : dates]

\* the rows (name, date, size) of the listing page at rest_of_url
TreePage(rt, rest_of_url) ==
    IF rest_of_url = TreeRootFolder \o "/"
    THEN <<ParentRow,
           [name |-> "a/", date |-> rt.a, size |-> "-"],
           [name |-> "r", date |-> rt.r, size |-> SizeLabel(rt.r)]>>
    ELSE IF rest_of_url = TreeRootFolder \o "/a/"
    THEN <<ParentRow, [name |-> "f", date |-> rt.f, size |-> SizeLabel(rt.f)]>>
            \o (IF rt.has_b THEN <<[name |-> "b/", date |-> rt.b, size |-> "-"]>> ELSE <<>>)
    ELSE IF rest_of_url = TreeRootFolder \o "/a/b/" /\ rt.has_b
    THEN <<ParentRow, [name |-> "g", date |-> rt.g, size |-> SizeLabel(rt.g)]>>
    ELSE <<>>

(***************************************************************************)
(* cache_updates.py: fetch_file_directory.  The walk threads one record:   *)
(* most_recent (the nonlocal accumulator), and, as a log of the walk, the  *)
(* pages fetched (in order) and the entries taken from the previous tree.  *)
(***************************************************************************)
\* the test without its depth conjunct
ReuseAtAnyDepth(row, last_update, required_depth, existing_data_at_level, depth) ==
    /\ row.date <= last_update
    /\ row.name \in DOMAIN existing_data_at_level

\* the test of line 111: take the entry from the previous tree
ReuseEntry(row, last_update, required_depth, existing_data_at_level, depth) ==
    /\ row.date <= last_update
    /\ depth >= required_depth
    /\ row.name \in DOMAIN existing_data_at_level

\* a walk that enters every folder listed, reused or not
enters_every_folder(row, reuse) == EndsWith(row.name, "/")

\* line 113: the elif of the reuse test, `folder.endswith("/")`
enters(row, reuse) == ~reuse /\ EndsWith(row.name, "/")

\* a page's content that starts from what the previous tree has at the level
previous_content(existing_data_at_level) == existing_data_at_level

\* line 107: `new_content = dict()`
new_content_dict(existing_data_at_level) == <<>>

\* an accumulator that takes the date of the row just handled
DateOfRow(date, most_recent) == date

\* lines 119-120: `if date > most_recent: most_recent = date`
NewerDate(date, most_recent) == IF date > most_recent THEN date ELSE most_recent

RECURSIVE get_info_from_page(_, _, _, _, _)
RECURSIVE WalkRows(_, _, _, _, _, _, _)
\* ctx: the remote tree, last_update and required_depth of the call
get_info_from_page(ctx, rest_of_url, existing_data_at_level, depth, walk) ==
    WalkRows(ctx,
             SelectSeq(TreePage(ctx.rt, rest_of_url),
                       LAMBDA row : row.name # "Parent Directory"),
             rest_of_url, existing_data_at_level, depth,
             new_content_dict(existing_data_at_level),
             [walk EXCEPT !.fetched = Append(@, rest_of_url)])

\* the loop of get_info_from_page over the rows left, new_content so far
WalkRows(ctx, rows_left, rest_of_url, existing_data_at_level, depth, new_content, walk) ==
    IF rows_left = <<>> THEN [content |-> new_content, walk |-> walk]
    ELSE
    LET row == Head(rows_left)
        reuse == ReuseEntry(row, ctx.last_update, ctx.required_depth,
                            existing_data_at_level, depth)
        below == get_info_from_page(ctx, rest_of_url \o row.name,
                    IF row.name \in DOMAIN existing_data_at_level
                    THEN existing_data_at_level[row.name] ELSE <<>>,
                    depth + 1, walk)
        value == IF reuse THEN existing_data_at_level[row.name]
                 ELSE IF enters(row, reuse) THEN below.content
                 ELSE row.size
        walk0 == IF enters(row, reuse) THEN below.walk ELSE walk
        walk1 == IF reuse THEN [walk0 EXCEPT !.reused = @ \cup {rest_of_url \o row.name}]
                 ELSE walk0
        walk2 == [walk1 EXCEPT !.most_recent = NewerDate(row.date, @),
                               !.listed = @ \cup {[url |-> rest_of_url \o row.name,
                                                   date |-> row.date, depth |-> depth]}]
    IN  WalkRows(ctx, Tail(rows_left), rest_of_url, existing_data_at_level, depth,
                 Put(new_content, row.name, value), walk2)

\* fetch_file_directory: [content, walk], walk.most_recent the date returned
fetch_file_directory(rt, existing_dict, last_update, required_depth) ==
    get_info_from_page([rt |-> rt, last_update |-> last_update,
                        required_depth |-> required_depth],
                       TreeRootFolder \o "/", existing_dict, 0,
                       [most_recent |-> last_update, fetched |-> <<>>,
                        reused |-> {}, listed |-> {}])

REQUIRED_FETCH_DEPTH == 1

(***************************************************************************)
(* update_xml_files and __main__ as functions of the files and the remote  *)
(* trees: what one run that nothing interrupts leaves on disk.             *)
(***************************************************************************)
\* line 191: `date <= last_update and folder in cache_dir`
\* a skip test that looks at the date alone
skip_by_date(cd, cutoff, folder, date) == date <= cutoff

skip_entry(cd, cutoff, folder, date) == date <= cutoff /\ Contains(cd, folder)

\* an accumulator that takes the date of the last folder written
LastDate(date, latest) == date

\* lines 205-206: `if date > most_recent: most_recent = date`
LaterDate(date, latest) == IF date > latest THEN date ELSE latest

\* lines 194-207 for the folders spider_folder yields; st: cache_dir, the
\* manifest files and most_recent
RECURSIVE RunFolders(_, _, _, _)
RunFolders(rem, xml_folders, date, st) ==
    IF xml_folders = <<>> THEN st
    ELSE LET folder == Head(xml_folders)
             found == Manifest(rem, folder)
         IN  RunFolders(rem, Tail(xml_folders), date,
                IF DOMAIN found = {} THEN st
                ELSE [cd |-> add_folder(st.cd, folder),
                      files |-> Put(st.files, folder, insert_archive_sizes(found)),
                      most_recent |-> LaterDate(date, st.most_recent)])

\* lines 189-207: the loop over the listing entries
RECURSIVE RunRows(_, _, _, _)
RunRows(rem, rows_left, cutoff, st) ==
    IF rows_left = <<>> THEN st
    ELSE LET row == Head(rows_left) IN
         RunRows(rem, Tail(rows_left), cutoff,
            IF skip_entry(st.cd, cutoff, row.folder, row.date)
            THEN [st EXCEPT !.cd = use_cached_folder(@, row.folder)]
            ELSE RunFolders(rem, spider_folder(rem, row.folder), row.date, st))

\* lines 183-213 for one partition: the loop, save, prune_removed_files
RunPartition(rem, p, dir_file, files, cutoff, latest) ==
    LET st == RunRows(rem, iter_folders(TopListing(rem, p)), cutoff,
                      [cd |-> CachedDirectory(dir_file), files |-> files,
                       most_recent |-> latest])
        gone == PruneTargets(st.cd).qt \cup PruneTargets(st.cd).tools
    IN  [directory |-> out(st.cd),
         manifests |-> [f \in (DOMAIN st.files) \ gone |-> st.files[f]],
         most_recent |-> st.most_recent]

\* update_xml_files over the partitions from p on
RECURSIVE RunPartitions(_, _, _, _, _)
RunPartitions(remotes, p, dsk, cutoff, latest) ==
    IF p > Len(Partitions) THEN [disk |-> dsk, most_recent |-> latest]
    ELSE LET done == RunPartition(remotes[p], p, dsk.directory[p], dsk.manifests[p],
                                  cutoff, latest)
         IN  RunPartitions(remotes, p + 1,
                [dsk EXCEPT !.directory[p] = done.directory,
                            !.manifests[p] = done.manifests],
                cutoff, done.most_recent)

\* __main__: the files a complete run leaves, from the files dsk
CompleteRun(dsk, remotes, rt) ==
    LET dates == get_last_update_dates(dsk.last_updated)
        got == fetch_file_directory(rt,
                    IF dsk.tree.exists THEN dsk.tree.content ELSE <<>>,
                    IF TreeRootFolder \in DOMAIN dates THEN dates[TreeRootFolder] ELSE 0,
                    REQUIRED_FETCH_DEPTH)
        online == RunPartitions(remotes, 1,
                    [dsk EXCEPT !.tree = [exists |-> TRUE, content |-> got.content]],
                    dates["online"], dates["online"])
    IN  [online.disk EXCEPT !.last_updated =
            save_last_update_dates(
                Put(Put(dates, TreeRootFolder, got.walk.most_recent),
                    "online", online.most_recent))]

(***************************************************************************)
(* The state: the remote trees, the files under public/, and one run of    *)
(* __main__ with the locals of update_xml_files.                           *)
(***************************************************************************)
VARIABLES
    remote,             \* remote[p]: the online tree of partition p
    remote_tree,        \* the tree of official_releases
    last_updated_json,  \* public/last_updated.json
    tree_json,          \* public/official_releases.json
    directory_json,     \* directory_json[p]: public/<host>/<target>/directory.json
    manifest_json,      \* manifest_json[p]: folder -> content of <folder>.json
    pc,                 \* where the run is
    runs,               \* runs started
    last_updates,       \* __main__: last_updates
    new_dates,          \* __main__: new_dates
    folder_metadata,    \* __main__: the tree fetch_file_directory returned
    last_update,        \* update_xml_files: last_update
    most_recent,        \* update_xml_files: most_recent
    part,               \* update_xml_files: the partition of the loop
    cache_dir,          \* update_xml_files: cache_dir
    rows,               \* update_xml_files: the listing entries left
    entry,              \* update_xml_files: folder, date of the loop
    stack,              \* spider_folder: the folders left to fetch, depth first
    xml_folder,         \* update_xml_files: xml_folder
    content,            \* update_xml_files: content
    to_prune,           \* prune_removed_files: the files left to unlink
    failure,            \* why the run ended, when it did not complete
    changed,            \* a remote tree changed since the last run started
    start_disk,         \* the files when the run started
    orig_disk,          \* the files when the first of a chain of failed runs started
    tree_call,          \* a call of fetch_file_directory on its own: its arguments
                        \* and what it returned
    call,               \* a call of another function on its own: its arguments
                        \* and what it returned
    history             \* quiet: the run before completed and no remote tree changed
                        \* since it started; clean: no run failed so far;
                        \* rerun: the run before failed and no remote tree changed since

disk_vars == <<last_updated_json, tree_json, directory_json, manifest_json>>
env_vars == <<remote, remote_tree, changed>>
main_vars == <<last_updates, new_dates, folder_metadata>>
loop_vars == <<last_update, most_recent, part, cache_dir, rows, entry, stack,
               xml_folder, content, to_prune>>
ghost_vars == <<start_disk, orig_disk, history, tree_call, call>>
vars == <<remote, remote_tree, last_updated_json, tree_json, directory_json,
          manifest_json, pc, runs, last_updates, new_dates, folder_metadata,
          last_update, most_recent, part, cache_dir, rows, entry, stack,
          xml_folder, content, to_prune, failure, changed, start_disk,
          orig_disk, history, tree_call, call>>

\* the files under public/
Disk == [last_updated |-> last_updated_json, tree |-> tree_json,
         directory |-> directory_json, manifests |-> manifest_json]

NoEntry == [folder |-> "", date |-> 0]
NoCacheDir == CachedDirectory(NoDirectoryFile)
NoPrune == [qt |-> {}, tools |-> {}]
NoTreeFile == [exists |-> FALSE, content |-> <<>>]
NoCall == [state |-> "none"]

\* the values the locals of a run have while no run is under way
LocalsReset ==
    /\ last_updates' = <<>>
    /\ new_dates' = <<>>
    /\ folder_metadata' = <<>>
    /\ last_update' = 0
    /\ most_recent' = 0
    /\ part' = 0
    /\ cache_dir' = NoCacheDir
    /\ rows' = <<>>
    /\ entry' = NoEntry
    /\ stack' = <<>>
    /\ xml_folder' = ""
    /\ content' = <<>>
    /\ to_prune' = NoPrune

Running == pc \notin {"idle", "done", "aborted"}

\* the trees of official_releases the main specification moves between
TreeBefore == [r |-> 1, a |-> 1, f |-> 1, has_b |-> FALSE, b |-> 0, g |-> 0]
TreeAfter == [r |-> 1, a |-> 1, f |-> 1, has_b |-> TRUE, b |-> 1, g |-> MaxTime]
MainTreeStates == {TreeBefore, TreeAfter}

\* no run has started: the locals of a run hold nothing
NoRun ==
    /\ pc = "idle"
    /\ runs = 0
    /\ last_updates = <<>>
    /\ new_dates = <<>>
    /\ folder_metadata = <<>>
    /\ last_update = 0
    /\ most_recent = 0
    /\ part = 0
    /\ cache_dir = NoCacheDir
    /\ rows = <<>>
    /\ entry = NoEntry
    /\ stack = <<>>
    /\ xml_folder = ""
    /\ content = <<>>
    /\ to_prune = NoPrune
    /\ failure = "none"
    /\ changed = FALSE
    /\ start_disk = Disk
    /\ orig_disk = Disk
    /\ history = [quiet |-> FALSE, clean |-> TRUE, rerun |-> FALSE]
    /\ tree_call = NoCall
    /\ call = NoCall

\* the initial files: no cache, the cutoff at the epoch
EmptyDisk ==
    [last_updated |-> save_last_update_dates([k \in {"online"} |-> 0]),
     tree |-> NoTreeFile,
     directory |-> [p \in PartitionIds |-> NoDirectoryFile],
     manifests |-> [p \in PartitionIds |-> <<>>]]

\* a fresh checkout: nothing cached, the cutoff at the epoch
Init ==
    /\ remote \in [PartitionIds -> UNION {RemoteStates(p) : p \in PartitionIds}]
    /\ \A p \in PartitionIds : remote[p] \in RemoteStates(p)
    /\ remote_tree = TreeBefore
    /\ last_updated_json = save_last_update_dates([k \in {"online"} |-> 0])
    /\ tree_json = NoTreeFile
    /\ directory_json = [p \in PartitionIds |-> NoDirectoryFile]
    /\ manifest_json = [p \in PartitionIds |-> <<>>]
    /\ NoRun

(***************************************************************************)
(* __main__ (cache_updates.py, lines 217-242), one action per step.        *)
(***************************************************************************)
\* a run starts: get_last_update_dates, new_dates
StartRun ==
    /\ pc \in {"idle", "done", "aborted"}
    /\ runs < MaxRuns
    /\ runs' = runs + 1
    /\ last_updates' = get_last_update_dates(last_updated_json)
    /\ new_dates' = get_last_update_dates(last_updated_json)
    /\ pc' = "tree"
    /\ failure' = "none"
    /\ changed' = FALSE
    /\ start_disk' = Disk
    /\ orig_disk' = IF pc = "aborted" /\ ~changed THEN orig_disk ELSE Disk
    /\ history' = [quiet |-> pc = "done" /\ ~changed,
                   clean |-> history.clean /\ pc # "aborted",
                   rerun |-> pc = "aborted" /\ ~changed]
    /\ UNCHANGED <<remote, remote_tree, disk_vars, folder_metadata, loop_vars, tree_call,
                   call>>

\* previous_metadata of __main__
previous_metadata == IF tree_json.exists THEN tree_json.content ELSE <<>>

\* previous_update_time of __main__: last_updates.get(root_folder, epoch)
previous_update_time ==
    IF TreeRootFolder \in DOMAIN last_updates THEN last_updates[TreeRootFolder] ELSE 0

\* fetch_file_directory of the tree root, new_dates[root_folder]
FetchTree ==
    /\ pc = "tree"
    /\ LET got == fetch_file_directory(remote_tree, previous_metadata,
                                       previous_update_time, REQUIRED_FETCH_DEPTH)
       IN  /\ folder_metadata' = got.content
           /\ new_dates' = Put(new_dates, TreeRootFolder, got.walk.most_recent)
    /\ pc' = "tree_write"
    /\ UNCHANGED <<env_vars, disk_vars, runs, last_updates, loop_vars, failure, ghost_vars>>

\* a run that stores its dates as soon as the tree snapshot is written
WriteTreeAndDates ==
    /\ pc = "tree_write"
    /\ tree_json' = [exists |-> TRUE, content |-> folder_metadata]
    /\ last_updated_json' = save_last_update_dates(new_dates)
    /\ last_update' = last_updates["online"]
    /\ most_recent' = last_updates["online"]
    /\ part' = 1
    /\ pc' = "open"
    /\ UNCHANGED <<env_vars, directory_json, manifest_json, runs, main_vars, cache_dir,
                   rows, entry, stack, xml_folder, content, to_prune, failure,
                   ghost_vars>>

\* cached_meta_file.write_text, then the call of update_xml_files
WriteTree ==
    /\ pc = "tree_write"
    /\ tree_json' = [exists |-> TRUE, content |-> folder_metadata]
    /\ last_update' = last_updates["online"]
    /\ most_recent' = last_updates["online"]
    /\ part' = 1
    /\ pc' = "open"
    /\ UNCHANGED <<env_vars, last_updated_json, directory_json, manifest_json, runs,
                   main_vars, cache_dir, rows, entry, stack, xml_folder, content,
                   to_prune, failure, ghost_vars>>

(***************************************************************************)
(* update_xml_files (cache_updates.py, lines 179-214).                     *)
(***************************************************************************)
\* CachedDirectory(...) and the fetch of the partition's listing
OpenPartition ==
    /\ pc = "open"
    /\ cache_dir' = CachedDirectory(directory_json[part])
    /\ rows' = iter_folders(TopListing(remote[part], part))
    /\ pc' = "entry"
    /\ UNCHANGED <<env_vars, disk_vars, runs, main_vars, last_update, most_recent, part,
                   entry, stack, xml_folder, content, to_prune, failure, ghost_vars>>

\* line 191: the entry is not fetched again
SkipEntry(folder, date) == skip_entry(cache_dir, last_update, folder, date)

\* lines 191-193: use_cached_folder
UseCached ==
    /\ pc = "entry"
    /\ rows # <<>>
    /\ SkipEntry(Head(rows).folder, Head(rows).date)
    /\ cache_dir' = use_cached_folder(cache_dir, Head(rows).folder)
    /\ entry' = Head(rows)
    /\ rows' = Tail(rows)
    /\ UNCHANGED <<env_vars, disk_vars, pc, runs, main_vars, last_update, most_recent,
                   part, stack, xml_folder, content, to_prune, failure, ghost_vars>>

\* line 194: spider_folder(meta, folder) is entered
BeginSpider ==
    /\ pc = "entry"
    /\ rows # <<>>
    /\ ~SkipEntry(Head(rows).folder, Head(rows).date)
    /\ entry' = Head(rows)
    /\ rows' = Tail(rows)
    /\ stack' = <<Head(rows).folder>>
    /\ pc' = "spider"
    /\ UNCHANGED <<env_vars, disk_vars, runs, main_vars, last_update, most_recent, part,
                   cache_dir, xml_folder, content, to_prune, failure, ghost_vars>>

\* spider_folder: a page with Updates.xml yields its folder
SpiderYield ==
    /\ pc = "spider"
    /\ stack # <<>>
    /\ FolderPage(remote[part], Head(stack)).xml
    /\ xml_folder' = Head(stack)
    /\ stack' = Tail(stack)
    /\ pc' = "manifest"
    /\ UNCHANGED <<env_vars, disk_vars, runs, main_vars, last_update, most_recent, part,
                   cache_dir, rows, entry, content, to_prune, failure, ghost_vars>>

\* spider_folder: a page without Updates.xml, its folders come next
SpiderDescend ==
    /\ pc = "spider"
    /\ stack # <<>>
    /\ ~FolderPage(remote[part], Head(stack)).xml
    /\ LET page == FolderPage(remote[part], Head(stack))
           folders == SelectSeq(page.rows, LAMBDA folder : is_qt_or_tools(folder))
       IN  stack' = [i \in 1..Len(folders) |-> Head(stack) \o "/" \o folders[i]]
                        \o Tail(stack)
    /\ UNCHANGED <<env_vars, disk_vars, pc, runs, main_vars, last_update, most_recent,
                   part, cache_dir, rows, entry, xml_folder, content, to_prune, failure,
                   ghost_vars>>

\* spider_folder is exhausted: the next listing entry
SpiderDone ==
    /\ pc = "spider"
    /\ stack = <<>>
    /\ pc' = "entry"
    /\ UNCHANGED <<env_vars, disk_vars, runs, main_vars, loop_vars, failure, ghost_vars>>

\* lines 195-197: _fetch_module_metadata, `if not content: continue`
FetchManifest ==
    /\ pc = "manifest"
    /\ content' = Manifest(remote[part], xml_folder)
    /\ pc' = IF DOMAIN Manifest(remote[part], xml_folder) = {} THEN "spider" ELSE "sizes"
    /\ UNCHANGED <<env_vars, disk_vars, runs, main_vars, last_update, most_recent, part,
                   cache_dir, rows, entry, stack, xml_folder, to_prune, failure,
                   ghost_vars>>

\* lines 199-200: insert_archive_sizes, add_folder
ArchiveSizes ==
    /\ pc = "sizes"
    /\ content' = insert_archive_sizes(content)
    /\ cache_dir' = add_folder(cache_dir, xml_folder)
    /\ pc' = "write"
    /\ UNCHANGED <<env_vars, disk_vars, runs, main_vars, last_update, most_recent, part,
                   rows, entry, stack, xml_folder, to_prune, failure, ghost_vars>>

\* lines 201-207: json_file.write_text, most_recent, add_folder
WriteManifest ==
    /\ pc = "write"
    /\ manifest_json' = [manifest_json EXCEPT ![part] = Put(@, xml_folder, content)]
    /\ most_recent' = LaterDate(entry.date, most_recent)
    /\ cache_dir' = add_folder(cache_dir, xml_folder)
    /\ pc' = "spider"
    /\ UNCHANGED <<env_vars, last_updated_json, tree_json, directory_json, runs,
                   main_vars, last_update, part, rows, entry, stack, xml_folder, content,
                   to_prune, failure, ghost_vars>>

\* a run that goes on to prune first: it writes directory.json at this point
\* only when there is no file to unlink
SaveAfterPrune ==
    /\ pc = "entry"
    /\ rows = <<>>
    /\ directory_json' = IF PruneTargets(cache_dir) = [qt |-> {}, tools |-> {}]
                         THEN [directory_json EXCEPT ![part] = out(cache_dir)]
                         ELSE directory_json
    /\ to_prune' = PruneTargets(cache_dir)
    /\ pc' = "prune"
    /\ UNCHANGED <<env_vars, last_updated_json, tree_json, manifest_json, runs,
                   main_vars, last_update, most_recent, part, cache_dir, rows, entry,
                   stack, xml_folder, content, failure, ghost_vars>>

\* line 210: cache_dir.save(), after the last listing entry
Save ==
    /\ pc = "entry"
    /\ rows = <<>>
    /\ directory_json' = [directory_json EXCEPT ![part] = out(cache_dir)]
    /\ to_prune' = PruneTargets(cache_dir)
    /\ pc' = "prune"
    /\ UNCHANGED <<env_vars, last_updated_json, tree_json, manifest_json, runs,
                   main_vars, last_update, most_recent, part, cache_dir, rows, entry,
                   stack, xml_folder, content, failure, ghost_vars>>

\* the set prune_removed_files is iterating over: qt first, then tools
PruneFrom == IF to_prune.qt # {} THEN "qt" ELSE "tools"

\* prune_removed_files: one json_file.unlink(); it raises when the file is missing
Unlink ==
    /\ pc = "prune"
    /\ \E previous_folder \in to_prune[PruneFrom] :
        IF previous_folder \in DOMAIN manifest_json[part]
        THEN /\ manifest_json' = [manifest_json EXCEPT ![part] =
                    [f \in (DOMAIN @) \ {previous_folder} |-> @[f]]]
             /\ to_prune' = [to_prune EXCEPT ![PruneFrom] = @ \ {previous_folder}]
             /\ UNCHANGED <<pc, failure, main_vars, last_update, most_recent, part,
                            cache_dir, rows, entry, stack, xml_folder, content>>
        ELSE /\ pc' = "aborted"
             /\ failure' = "unlink"
             /\ LocalsReset
             /\ UNCHANGED manifest_json
    /\ UNCHANGED <<env_vars, last_updated_json, tree_json, directory_json, runs,
                   ghost_vars>>

\* the loop over the partitions goes on
NextPartition ==
    /\ pc = "prune"
    /\ to_prune = NoPrune
    /\ part < Len(Partitions)
    /\ part' = part + 1
    /\ pc' = "open"
    /\ UNCHANGED <<env_vars, disk_vars, runs, main_vars, last_update, most_recent,
                   cache_dir, rows, entry, stack, xml_folder, content, to_prune, failure,
                   ghost_vars>>

\* line 214 and line 240: return most_recent, new_dates["online"]
Return ==
    /\ pc = "prune"
    /\ to_prune = NoPrune
    /\ part = Len(Partitions)
    /\ new_dates' = Put(new_dates, "online", most_recent)
    /\ pc' = "save_dates"
    /\ UNCHANGED <<env_vars, disk_vars, runs, last_updates, folder_metadata, loop_vars,
                   failure, ghost_vars>>

\* line 242: save_last_update_dates(new_dates); the run is complete
SaveDates ==
    /\ pc = "save_dates"
    /\ last_updated_json' = save_last_update_dates(new_dates)
    /\ pc' = "done"
    /\ LocalsReset
    /\ UNCHANGED <<env_vars, tree_json, directory_json, manifest_json, runs, failure,
                   ghost_vars>>

(***************************************************************************)
(* Failures.  No handler of update_xml_files or __main__ catches anything: *)
(* an exception raised by a fetch ends the run.                            *)
(***************************************************************************)
\* the step about to be taken fetches a page
AtFetch ==
    \/ pc \in {"tree", "open", "manifest"}
    \/ pc = "spider" /\ stack # <<>>
    \/ pc = "sizes" /\ FetchesArchiveSizes(content)

\* fetch_http raises: the exception leaves update_xml_files and __main__
TransportError ==
    /\ AtFetch
    /\ failure' = IF pc \in {"spider", "manifest", "sizes"}
                  THEN "transport error in a folder" ELSE "transport error"
    /\ pc' = "aborted"
    /\ LocalsReset
    /\ UNCHANGED <<env_vars, disk_vars, runs, ghost_vars>>

\* the process is stopped before a step that fetches nothing
Crash ==
    /\ Running
    /\ ~AtFetch
    /\ failure' = "crash"
    /\ pc' = "aborted"
    /\ LocalsReset
    /\ UNCHANGED <<env_vars, disk_vars, runs, ghost_vars>>

(***************************************************************************)
(* The remote side, after a complete run and before the next: one          *)
(* top-level folder of one partition changes, or the tree of               *)
(* official_releases does.                                                 *)
(***************************************************************************)
RemoteChange ==
    /\ pc = "done"
    /\ ~changed
    /\ runs < MaxRuns
    /\ \E p \in PartitionIds : \E name \in ToSet(TopNames[p]) : \E e \in EntryStates :
        /\ e # remote[p][name]
        /\ remote' = [remote EXCEPT ![p][name] = e]
    /\ changed' = TRUE
    /\ UNCHANGED <<remote_tree, disk_vars, pc, runs, main_vars, loop_vars, failure,
                   ghost_vars>>

\* a change that shows: a folder goes, or comes or changes with a date newer
\* than the cutoff the job has stored
HonestChange ==
    /\ pc = "done"
    /\ ~changed
    /\ runs < MaxRuns
    /\ \E p \in PartitionIds : \E name \in ToSet(TopNames[p]) : \E e \in EntryStates :
        /\ e # remote[p][name]
        /\ e.present => e.date > fromtimestamp(last_updated_json["online"])
        /\ remote' = [remote EXCEPT ![p][name] = e]
    /\ changed' = TRUE
    /\ UNCHANGED <<remote_tree, disk_vars, pc, runs, main_vars, loop_vars, failure,
                   ghost_vars>>

TreeChange ==
    /\ pc = "done"
    /\ ~changed
    /\ runs < MaxRuns
    /\ \E rt \in MainTreeStates :
        /\ rt # remote_tree
        /\ remote_tree' = rt
    /\ changed' = TRUE
    /\ UNCHANGED <<remote, disk_vars, pc, runs, main_vars, loop_vars, failure,
                   ghost_vars>>

Next ==
    \/ StartRun
    \/ FetchTree
    \/ WriteTree
    \/ OpenPartition
    \/ UseCached
    \/ BeginSpider
    \/ SpiderYield
    \/ SpiderDescend
    \/ SpiderDone
    \/ FetchManifest
    \/ ArchiveSizes
    \/ WriteManifest
    \/ Save
    \/ Unlink
    \/ NextPartition
    \/ Return
    \/ SaveDates
    \/ TransportError
    \/ Crash
    \/ RemoteChange
    \/ TreeChange

Spec == Init /\ [][Next]_vars

\* the steps of the job
Job ==
    \/ StartRun
    \/ FetchTree
    \/ WriteTree
    \/ OpenPartition
    \/ UseCached
    \/ BeginSpider
    \/ SpiderYield
    \/ SpiderDescend
    \/ SpiderDone
    \/ FetchManifest
    \/ ArchiveSizes
    \/ WriteManifest
    \/ Save
    \/ Unlink
    \/ NextPartition
    \/ Return
    \/ SaveDates
    \/ TransportError
    \/ Crash

\* the job against a remote side whose every change shows in the dates
NextHonest == Job \/ HonestChange

SpecHonest == Init /\ [][NextHonest]_vars

(***************************************************************************)
(* fetch_file_directory on its own: a call with any remote tree, any       *)
(* previous tree an earlier crawl returned (or none), any cutoff and any   *)
(* required_depth.                                                         *)
(***************************************************************************)
MaxDepth == 2

\* the dates an entry of the tree shows
TreeDates == 1..MaxTime

\* the previous trees: none, or what a crawl without a previous tree returned
PreviousTrees ==
    {<<>>} \cup {fetch_file_directory(rt, <<>>, 0, 0).content : rt \in TreeStates(TreeDates)}

\* the caller passes its arguments
CallTree ==
    /\ tree_call.state = "none"
    /\ \E rt \in TreeStates(TreeDates) : \E existing_dict \in PreviousTrees :
       \E cutoff \in 0..MaxTime : \E required_depth \in 0..MaxDepth :
          tree_call' = [state |-> "called", rt |-> rt, existing_dict |-> existing_dict,
                        last_update |-> cutoff, required_depth |-> required_depth]
    /\ UNCHANGED <<env_vars, disk_vars, pc, runs, main_vars, loop_vars, failure,
                   start_disk, orig_disk, history, call>>

\* fetch_file_directory returns the new tree and the most recent date
ReturnTree ==
    /\ tree_call.state = "called"
    /\ LET got == fetch_file_directory(tree_call.rt, tree_call.existing_dict,
                                       tree_call.last_update, tree_call.required_depth)
       IN  tree_call' = [state |-> "returned", rt |-> tree_call.rt,
                         existing_dict |-> tree_call.existing_dict,
                         last_update |-> tree_call.last_update,
                         required_depth |-> tree_call.required_depth,
                         content |-> got.content, walk |-> got.walk]
    /\ UNCHANGED <<env_vars, disk_vars, pc, runs, main_vars, loop_vars, failure,
                   start_disk, orig_disk, history, call>>

InitTree ==
    /\ remote = [p \in PartitionIds |-> [n \in ToSet(TopNames[p]) |-> Absent]]
    /\ remote_tree = TreeBefore
    /\ last_updated_json = save_last_update_dates([k \in {"online"} |-> 0])
    /\ tree_json = NoTreeFile
    /\ directory_json = [p \in PartitionIds |-> NoDirectoryFile]
    /\ manifest_json = [p \in PartitionIds |-> <<>>]
    /\ NoRun

NextTree == CallTree \/ ReturnTree

SpecTree == InitTree /\ [][NextTree]_vars

(***************************************************************************)
(* Runs that follow a complete first run: the files are those the first    *)
(* run left, the remote trees those of the first run or one change later,  *)
(* and they stay as they are while the job runs, fails and runs again.     *)
(***************************************************************************)
\* the online trees of the first run: every folder present
RerunFirst ==
    {rem \in [PartitionIds -> UNION {RemoteStates(p) : p \in PartitionIds}] :
        \A p \in PartitionIds :
            /\ rem[p] \in RemoteStates(p)
            /\ \A n \in DOMAIN rem[p] : rem[p][n].present /\ rem[p][n].date = 1}

InitRerun ==
    /\ \E first \in RerunFirst :
        /\ remote \in [PartitionIds -> UNION {RemoteStates(p) : p \in PartitionIds}]
        /\ \E p \in PartitionIds : \E n \in ToSet(TopNames[p]) : \E e \in EntryStates :
              remote = [first EXCEPT ![p][n] = e]
        /\ LET left == CompleteRun(EmptyDisk, first, TreeBefore) IN
            /\ last_updated_json = left.last_updated
            /\ tree_json = left.tree
            /\ directory_json = left.directory
            /\ manifest_json = left.manifests
    /\ remote_tree \in MainTreeStates
    /\ NoRun

SpecRerun == InitRerun /\ [][Job]_vars

(***************************************************************************)
(* The classifier and the routing of CachedDirectory on their own: a       *)
(* folder name is picked, is_qt_or_tools classifies it, and the methods of *)
(* CachedDirectory are applied to it.                                      *)
(***************************************************************************)
NamePrefixes == {"qt", "tools_", "tools", "sdktool", "licenses", "extra_qt"}
NameVersions == {"", "5", "6", "6_5_0", "6_12_1", "5_15_2", "6_5", "mingw"}
NameSuffixes == {"", "_dev", "-backup", "_preview", "_src"}

\* the folder names a listing page may show
FolderNames ==
    {p \o v \o x : p \in NamePrefixes, v \in NameVersions, x \in NameSuffixes}

\* a directory.json that lists the folder in one set only
ListedAsQt(folder) == [exists |-> TRUE, qt |-> <<folder>>, tools |-> <<>>]
ListedAsTools(folder) == [exists |-> TRUE, qt |-> <<>>, tools |-> <<folder>>]

PickName ==
    /\ call.state = "none"
    /\ \E folder \in FolderNames : call' = [state |-> "named", name |-> folder]
    /\ UNCHANGED <<env_vars, disk_vars, pc, runs, main_vars, loop_vars, failure,
                   start_disk, orig_disk, history, tree_call>>

\* is_qt_or_tools(folder)
Classify ==
    /\ call.state = "named"
    /\ call' = [state |-> "classified", name |-> call.name,
                relevant |-> is_qt_or_tools(call.name)]
    /\ UNCHANGED <<env_vars, disk_vars, pc, runs, main_vars, loop_vars, failure,
                   start_disk, orig_disk, history, tree_call>>

\* add_folder on a new CachedDirectory; `in`, use_cached_folder and
\* add_folder followed by prune_removed_files on one that knows the folder
Route ==
    /\ call.state = "classified"
    /\ LET folder == call.name
           as_qt == CachedDirectory(ListedAsQt(folder))
           as_tools == CachedDirectory(ListedAsTools(folder))
       IN  call' = [state |-> "routed", name |-> folder, relevant |-> call.relevant,
                    added |-> add_folder(NoCacheDir, folder),
                    in_qt |-> Contains(as_qt, folder),
                    in_tools |-> Contains(as_tools, folder),
                    reused_qt |-> use_cached_folder(as_qt, folder),
                    reused_tools |-> use_cached_folder(as_tools, folder),
                    pruned_qt |-> PruneTargets(add_folder(as_qt, folder)),
                    pruned_tools |-> PruneTargets(add_folder(as_tools, folder))]
    /\ UNCHANGED <<env_vars, disk_vars, pc, runs, main_vars, loop_vars, failure,
                   start_disk, orig_disk, history, tree_call>>

NextNames == PickName \/ Classify \/ Route

SpecNames == InitTree /\ [][NextNames]_vars

(***************************************************************************)
(* cache-updates.py: xml_to_modules on its own.  A manifest document is    *)
(* the sequence of its PackageUpdate elements.  An element has a Name, may *)
(* have a DownloadableArchives child (downloads, with its text) and an     *)
(* UpdateFile child with a CompressedSize, and is complete when it has the *)
(* other children and attributes xml_to_modules reads.                     *)
(***************************************************************************)
MaxElements == 2

PackageNames == {"qtbase", "qtsvg"}
ArchiveTexts == {"", "a.7z,b.7z", "b.7z, a.7z", "c.7z", "a.7z,"}
CompressedSizes == {512, 2048}

PackageUpdates ==
    [Name : PackageNames, downloads : BOOLEAN, text : ArchiveTexts,
     update_file : BOOLEAN, CompressedSize : CompressedSizes, complete : BOOLEAN]

\* an element has no text of a child it does not have
Documents ==
    UNION {{doc \in [1..n -> PackageUpdates] :
               \A i \in 1..n : ~doc[i].downloads => doc[i].text = ""} :
           n \in 0..MaxElements}

\* str.strip, for the blanks the texts have
RECURSIVE strip(_)
strip(str) ==
    IF Len(str) > 0 /\ SubSeq(str, 1, 1) = " " THEN strip(SubSeq(str, 2, Len(str)))
    ELSE IF Len(str) > 0 /\ SubSeq(str, Len(str), Len(str)) = " "
    THEN strip(SubSeq(str, 1, Len(str) - 1))
    ELSE str

\* str.split(",")
RECURSIVE split(_)
split(data) ==
    IF \E i \in 1..Len(data) : SubSeq(data, i, i) = ","
    THEN LET at == CHOOSE i \in 1..Len(data) :
                      /\ SubSeq(data, i, i) = ","
                      /\ \A j \in 1..(i - 1) : SubSeq(data, j, j) # ","
         IN  <<SubSeq(data, 1, at - 1)>> \o split(SubSeq(data, at + 1, Len(data)))
    ELSE <<data>>

\* aqt.helper.ssplit: the pieces between commas, each stripped
ssplit(data) == [i \in 1..Len(split(data)) |-> strip(split(data)[i])]

\* human_readable_amt, for the sizes that divide evenly
RECURSIVE Scaled(_, _)
Scaled(size, labels) ==
    IF labels = <<>> THEN ToString(size) \o " PB"
    ELSE IF size < 1024 THEN ToString(size) \o " " \o Head(labels)
    ELSE Scaled(size \div 1024, Tail(labels))

human_readable_amt(num_bytes) == Scaled(num_bytes, <<"B", "KB", "MB", "GB", "TB">>)

\* an element that is reported whether or not its archive list has text
reported_with_any_text(packageupdate) ==
    packageupdate.downloads /\ packageupdate.update_file

\* lines 91-92, negated: the element is not passed over
reported(packageupdate) ==
    /\ packageupdate.downloads
    /\ packageupdate.update_file
    /\ packageupdate.text # ""

\* the loop of xml_to_modules over the elements left, packages so far; a
\* reported element without a child or attribute that is read raises
RECURSIVE PackagesFrom(_, _)
PackagesFrom(elements, packages) ==
    IF elements = <<>> THEN [raised |-> FALSE, packages |-> packages]
    ELSE LET packageupdate == Head(elements) IN
         IF ~reported(packageupdate) THEN PackagesFrom(Tail(elements), packages)
         ELSE IF ~packageupdate.complete THEN [raised |-> TRUE, packages |-> <<>>]
         ELSE PackagesFrom(Tail(elements),
                  Put(packages, packageupdate.Name,
                      [Name |-> packageupdate.Name,
                       CompressedSize |-> human_readable_amt(packageupdate.CompressedSize),
                       DownloadableArchives |-> ssplit(packageupdate.text)]))

xml_to_modules(doc) == PackagesFrom(doc, <<>>)

PickDocument ==
    /\ call.state = "none"
    /\ \E doc \in Documents : call' = [state |-> "document", doc |-> doc]
    /\ UNCHANGED <<env_vars, disk_vars, pc, runs, main_vars, loop_vars, failure,
                   start_disk, orig_disk, history, tree_call>>

ParseDocument ==
    /\ call.state = "document"
    /\ call' = [state |-> "parsed", doc |-> call.doc, got |-> xml_to_modules(call.doc)]
    /\ UNCHANGED <<env_vars, disk_vars, pc, runs, main_vars, loop_vars, failure,
                   start_disk, orig_disk, history, tree_call>>

NextManifest == PickDocument \/ ParseDocument

SpecManifest == InitTree /\ [][NextManifest]_vars

(***************************************************************************)
(* spider_folder on its own: a top-level entry qt1 over a tree given page  *)
(* by page.  qt1 lists qt_a, qt_a_preview and qt_b; qt_a lists qt_x and    *)
(* src; qt_b lists qt_y.  Any of the seven folders may hold Updates.xml.   *)
(***************************************************************************)
SpiderEntry == "qt1"

\* the folders a folder's page lists, in listing order
SpiderRows ==
    [path \in {"qt1", "qt1/qt_a", "qt1/qt_a_preview", "qt1/qt_b",
               "qt1/qt_a/qt_x", "qt1/qt_a/src", "qt1/qt_b/qt_y"} |->
        CASE path = "qt1" -> <<"qt_a", "qt_a_preview", "qt_b">>
          [] path = "qt1/qt_a" -> <<"qt_x", "src">>
          [] path = "qt1/qt_b" -> <<"qt_y">>
          [] OTHER -> <<>>]

\* the tree whose folders in with_xml link Updates.xml
SpiderTree(with_xml) ==
    [pages |-> [path \in DOMAIN SpiderRows |->
                   [xml |-> path \in with_xml, rows |-> SpiderRows[path]]]]

PickSpiderTree ==
    /\ call.state = "none"
    /\ \E with_xml \in SUBSET DOMAIN SpiderRows :
          call' = [state |-> "tree", with_xml |-> with_xml]
    /\ UNCHANGED <<env_vars, disk_vars, pc, runs, main_vars, loop_vars, failure,
                   start_disk, orig_disk, history, tree_call>>

\* the caller exhausts the generator
SpiderTreeDone ==
    /\ call.state = "tree"
    /\ call' = [state |-> "spidered", with_xml |-> call.with_xml,
                yielded |-> spider_folder(SpiderTree(call.with_xml), SpiderEntry),
                fetched |-> spider_fetches(SpiderTree(call.with_xml), SpiderEntry)]
    /\ UNCHANGED <<env_vars, disk_vars, pc, runs, main_vars, loop_vars, failure,
                   start_disk, orig_disk, history, tree_call>>

NextSpider == PickSpiderTree \/ SpiderTreeDone

SpecSpider == InitTree /\ [][NextSpider]_vars

(***************************************************************************)
(* The steps of a run and the run as a function agree.                     *)
(***************************************************************************)
StepsAgree == pc = "done" /\ ~changed => Disk = CompleteRun(start_disk, remote, remote_tree)

(***************************************************************************)
(* Claims about the crawler.                                               *)
(***************************************************************************)
\* the folders a directory.json file lists
Indexed(dir_file) == ToSet(dir_file.qt) \cup ToSet(dir_file.tools)

\* the names on the top-level listing page of partition p
ListedNames(p) ==
    {TopListing(remote[p], p)[i].folder : i \in 1..Len(TopListing(remote[p], p))}

\* a run has just completed against the remote trees as they are
RunComplete == pc = "done" /\ ~changed

\* C1, deletion completeness: after a complete run, a folder that the
\* partition's previous directory.json listed and whose top-level entry the
\* remote listing no longer shows has no manifest cache file.
C1_DeletionCompleteness ==
    RunComplete =>
        \A p \in PartitionIds : \A f \in Indexed(start_disk.directory[p]) :
            TopOf(f) \notin ListedNames(p) => f \notin DOMAIN manifest_json[p]

\* C2, idempotence: a complete run that follows a complete run, the remote
\* trees unchanged, leaves every directory.json and every manifest cache file
\* as the first run left them.
C2_Idempotence ==
    RunComplete /\ history.quiet =>
        /\ directory_json = start_disk.directory
        /\ manifest_json = start_disk.manifests

\* a second complete run over an unchanged remote tree with folders indexed
C2_Witness ==
    /\ RunComplete
    /\ history.quiet
    /\ directory_json[1].qt = <<"qt1/qt_a", "qt12">>
    /\ directory_json[2].tools = <<"tools_a">>

\* C3, incremental equals full re-crawl: a run over a cache that complete
\* runs produced ends with the directory.json contents and the set of
\* manifest cache files of a crawl of the same remote tree from an empty cache.
C3_IncrementalEqualsFull ==
    RunComplete /\ history.clean =>
        LET full == CompleteRun(EmptyDisk, remote, remote_tree) IN
        \A p \in PartitionIds :
            /\ directory_json[p] = full.directory[p]
            /\ DOMAIN manifest_json[p] = DOMAIN full.manifests[p]

\* the keys of last_updated.json that hold a timestamp
TimestampKeys(file) == {k \in DOMAIN file : ~EndsWith(k, "_utc_pretty")}

C5_ReuseCorrectness ==
    [][(pc = "entry" /\ pc' = "entry" /\ rows # <<>> /\ rows' = Tail(rows)) =>
        LET f == Head(rows).folder IN
        /\ new_set(cache_dir, f) \subseteq new_set(cache_dir', f)
        /\ \A x \in previous_set(cache_dir, f) :
              (x = f \/ StartsWith(x, f \o "/")) => x \in new_set(cache_dir', f)
        /\ previous_set(cache_dir', f) = previous_set(cache_dir, f)]_vars

\* use_cached_folder("qt1") has carried the nested folder qt1/qt_a over
C5_Witness ==
    /\ pc = "entry"
    /\ entry.folder = "qt1"
    /\ skip_entry(cache_dir, last_update, entry.folder, entry.date)
    /\ "qt1/qt_a" \in cache_dir.previous_qt
    /\ "qt1/qt_a" \in cache_dir.new_qt

\* the names from the tree root down to the entry at url
PathTo(url) ==
    CASE url = TreeRootFolder \o "/r" -> <<"r">>
      [] url = TreeRootFolder \o "/a/" -> <<"a/">>
      [] url = TreeRootFolder \o "/a/f" -> <<"a/", "f">>
      [] url = TreeRootFolder \o "/a/b/" -> <<"a/", "b/">>
      [] url = TreeRootFolder \o "/a/b/g" -> <<"a/", "b/", "g">>

\* the tree has an entry at the path
RECURSIVE HasPath(_, _)
HasPath(tree, path) ==
    /\ Head(path) \in DOMAIN tree
    /\ Len(path) > 1 => HasPath(tree[Head(path)], Tail(path))

\* the value the tree holds at a path it has
RECURSIVE ValueAt(_, _)
ValueAt(tree, path) ==
    IF Len(path) = 1 THEN tree[Head(path)] ELSE ValueAt(tree[Head(path)], Tail(path))

\* C6, tree cache trust depth: when fetch_file_directory returns, no entry
\* listed at a depth below required_depth was taken from the previous tree,
\* and a folder listed there was fetched; an entry listed at required_depth
\* or deeper, dated at or before the cutoff and a key of the previous tree at
\* its level, holds the previous tree's value and, a folder, was not fetched.
C6_TrustDepth ==
    tree_call.state = "returned" =>
        \A e \in tree_call.walk.listed :
            /\ e.depth < tree_call.required_depth =>
                  /\ e.url \notin tree_call.walk.reused
                  /\ EndsWith(e.url, "/") => e.url \in ToSet(tree_call.walk.fetched)
            /\ ( /\ e.depth >= tree_call.required_depth
                 /\ e.date <= tree_call.last_update
                 /\ HasPath(tree_call.existing_dict, PathTo(e.url)) ) =>
                  /\ e.url \in tree_call.walk.reused
                  /\ e.url \notin ToSet(tree_call.walk.fetched)
                  /\ ValueAt(tree_call.content, PathTo(e.url))
                        = ValueAt(tree_call.existing_dict, PathTo(e.url))

\* required_depth 1: the root-level folder a/, dated before the cutoff and
\* known, was fetched again; its child b/ was taken from the previous tree
\* although the file under it has changed
C6_Witness ==
    /\ tree_call.state = "returned"
    /\ tree_call.required_depth = 1
    /\ tree_call.rt.a < tree_call.last_update
    /\ "a/" \in DOMAIN tree_call.existing_dict
    /\ TreeRootFolder \o "/a/" \in ToSet(tree_call.walk.fetched)
    /\ TreeRootFolder \o "/a/b/" \in tree_call.walk.reused
    /\ tree_call.content["a/"]["b/"]["g"] # SizeLabel(tree_call.rt.g)

\* C7, the index never references a missing manifest: in every state, every
\* folder a directory.json lists has its manifest cache file.
C7_IndexedManifestsExist ==
    \A p \in PartitionIds : \A f \in Indexed(directory_json[p]) :
        f \in DOMAIN manifest_json[p]

\* prune_removed_files has unlinked the file of a folder the saved index
\* dropped, and the saved index still lists another folder
C7_Witness ==
    /\ pc = "prune"
    /\ to_prune = NoPrune
    /\ \E f \in Indexed(start_disk.directory[part]) : f \notin DOMAIN manifest_json[part]
    /\ Indexed(directory_json[part]) # {}

\* C8, save before prune: a step that deletes a manifest cache file of a
\* partition is a step of that partition's prune_removed_files, taken when
\* its directory.json already holds the new index.
C8_SaveBeforePrune ==
    [][\A p \in PartitionIds :
          (\E f \in DOMAIN manifest_json[p] : f \notin DOMAIN manifest_json'[p]) =>
              /\ pc = "prune"
              /\ p = part
              /\ directory_json[p] = out(cache_dir)]_vars

\* a manifest cache file of the tools set has been unlinked after the save
C8_Witness ==
    /\ pc = "prune"
    /\ part = 2
    /\ "tools_a" \in DOMAIN start_disk.manifests[2]
    /\ "tools_a" \notin DOMAIN manifest_json[2]
    /\ directory_json[2] # start_disk.directory[2]

\* C9, a transport error is per folder: when a fetch made for one listing
\* entry fails, the run goes on with the next listing entry of the partition.
C9_TransportErrorPerFolder ==
    [][(AtFetch /\ pc \in {"spider", "manifest", "sizes"}
            /\ failure' = "transport error in a folder") =>
        /\ pc' = "entry"
        /\ part' = part
        /\ rows' = rows]_vars

\* C10, safe re-run after failure: a run that completes after a failed run,
\* the remote trees the same throughout, leaves the last_updated.json and the
\* directory.json files that one uninterrupted run from the files before the
\* failed run leaves; and no run that follows a failed run fails in unlink.
C10_SafeRerun ==
    /\ (pc = "done" /\ history.rerun) =>
          LET once == CompleteRun(orig_disk, remote, remote_tree) IN
          /\ last_updated_json = once.last_updated
          /\ directory_json = once.directory
    /\ (pc = "aborted" /\ history.rerun) => failure # "unlink"

\* the steps of update_xml_files inside the loop over a partition's listing
InListingLoop == pc \in {"open", "entry", "spider", "manifest", "sizes", "write"}

\* what every step of a run keeps about when the files are written:
\* last_updated.json changes only in the last step of a run, when the tree
\* snapshot, every directory.json and every manifest file are already those of
\* the complete run; a directory.json changes only in the save of its
\* partition, after the last listing entry; a run that ends early leaves
\* last_updated.json as it was when the run started
WrittenAtTheEnd ==
    /\ last_updated_json' # last_updated_json =>
          /\ pc = "save_dates" /\ pc' = "done"
          /\ LET whole == CompleteRun(start_disk, remote, remote_tree) IN
             /\ tree_json = whole.tree
             /\ directory_json = whole.directory
             /\ manifest_json = whole.manifests
             /\ last_updated_json' = whole.last_updated
    /\ \A p \in PartitionIds : directory_json'[p] # directory_json[p] =>
          pc = "entry" /\ rows = <<>> /\ p = part
    /\ (pc # "aborted" /\ pc' = "aborted") => last_updated_json' = start_disk.last_updated

\* C11, persistence only at the very end, as stated: the above, and a run
\* that ends early while a partition is being processed (its listing loop, its
\* save or its prune) leaves that partition's directory.json as it was when
\* the run started.
C11_PersistedAtTheEnd ==
    [][/\ WrittenAtTheEnd
       /\ (pc' = "aborted" /\ (InListingLoop \/ pc = "prune")) =>
             directory_json'[part] = start_disk.directory[part]]_vars

\* C11 amended: the above, and a run that ends early inside the listing loop
\* of a partition leaves that partition's directory.json, and that of every
\* later partition, as it was when the run started.
C11_PersistedAfterTheLoop ==
    [][/\ WrittenAtTheEnd
       /\ (pc' = "aborted" /\ InListingLoop) =>
             \A p \in PartitionIds :
                 p >= part => directory_json'[p] = start_disk.directory[p]]_vars

\* a second run has failed at a fetch for a folder of the second partition:
\* the first partition's directory.json is rewritten, the second's and
\* last_updated.json are as the run found them
C11_Witness ==
    /\ pc = "aborted"
    /\ runs = 2
    /\ failure = "transport error in a folder"
    /\ directory_json[1] # start_disk.directory[1]
    /\ directory_json[2] = start_disk.directory[2]
    /\ directory_json[2].exists
    /\ tree_json.exists
    /\ last_updated_json = start_disk.last_updated

\* the step that takes the next entry off the partition's listing
EntryStep == pc = "entry" /\ rows # <<>> /\ pc' \in {"entry", "spider"}

\* the step handles the entry by use_cached_folder and fetches nothing for it
HandledFromCache ==
    /\ pc' = "entry"
    /\ stack' = <<>>
    /\ cache_dir' = use_cached_folder(cache_dir, Head(rows).folder)
    /\ rows' = Tail(rows)

\* C12, skip rule, as stated: every accepted listing entry dated at or before
\* the cutoff is handled by use_cached_folder and nothing is fetched for it,
\* whether or not the previous index contains the folder.
C12_SkipByDate ==
    [][(EntryStep /\ Head(rows).date <= last_update) => HandledFromCache]_vars

\* C12 amended: an accepted listing entry is handled by use_cached_folder,
\* nothing fetched for it, exactly when it is dated at or before the cutoff
\* and the previous index holds the folder or a folder nested under it; any
\* other entry goes to spider_folder, which fetches its page.
C12_SkipKnownByDate ==
    [][EntryStep =>
        LET folder == Head(rows).folder
            known == \E f \in previous_set(cache_dir, folder) :
                        f = folder \/ StartsWith(f, folder \o "/")
        IN  IF Head(rows).date <= last_update /\ known
            THEN HandledFromCache
            ELSE /\ pc' = "spider"
                 /\ stack' = <<folder>>
                 /\ cache_dir' = cache_dir]_vars

\* the tools entry, dated at or before the cutoff and indexed, has been taken
\* from the cache by a run that has the first partition behind it
C12_Witness ==
    /\ pc = "entry"
    /\ part = 2
    /\ entry.folder = "tools_a"
    /\ entry.date <= last_update
    /\ "tools_a/qt_a" \in cache_dir.previous_tools
    /\ "tools_a/qt_a" \in cache_dir.new_tools
    /\ stack = <<>>

\* the sets the methods of CachedDirectory use for the routed folder, when
\* the folder is routed to qt (to_qt) or to tools
RoutedAs(to_qt) ==
    LET one == {call.name} IN
    /\ call.added.new_qt = (IF to_qt THEN one ELSE {})
    /\ call.added.new_tools = (IF to_qt THEN {} ELSE one)
    /\ call.in_qt = to_qt
    /\ call.in_tools = ~to_qt
    /\ call.reused_qt.new_qt = (IF to_qt THEN one ELSE {})
    /\ call.reused_qt.new_tools = {}
    /\ call.reused_tools.new_tools = (IF to_qt THEN {} ELSE one)
    /\ call.reused_tools.new_qt = {}
    /\ call.pruned_qt.qt = (IF to_qt THEN {} ELSE one)
    /\ call.pruned_tools.tools = (IF to_qt THEN one ELSE {})

\* C13, partition routing, as stated: add_folder, use_cached_folder, `in` and
\* prune route an accepted folder name to tools iff it starts with "tools",
\* and to qt otherwise: tools_mingw to tools, qt6_5_0 to qt, sdktool to qt.
C13_RoutedByTools ==
    call.state = "routed" =>
        /\ call.relevant => RoutedAs(~StartsWith(call.name, "tools"))
        /\ call.name = "tools_mingw" => RoutedAs(FALSE)
        /\ call.name = "qt6_5_0" => RoutedAs(TRUE)
        /\ call.name = "sdktool" => RoutedAs(TRUE)

\* C13 amended: the four methods route a folder name to qt iff it starts
\* with "qt", and to tools otherwise: tools_mingw to tools, qt6_5_0 to qt,
\* sdktool to tools.
C13_RoutedByQt ==
    call.state = "routed" =>
        /\ RoutedAs(StartsWith(call.name, "qt"))
        /\ call.name = "tools_mingw" => RoutedAs(FALSE)
        /\ call.name = "qt6_5_0" => RoutedAs(TRUE)
        /\ call.name = "sdktool" => RoutedAs(FALSE)

\* sdktool, accepted by the classifier, has been routed
C13_Witness ==
    /\ call.state = "routed"
    /\ call.name = "sdktool"
    /\ call.relevant
    /\ call.added.new_tools = {"sdktool"}

Digits == {"0", "1", "2", "3", "4", "5", "6", "7", "8", "9"}

\* one or two digits
ShortNumbers == Digits \cup {a \o b : a \in Digits, b \in Digits}

\* version-looking: digits, or groups of digits joined by underscores
VersionLooking ==
    {v \in NameVersions :
        /\ v # ""
        /\ \A i \in 1..Len(v) : SubSeq(v, i, i) \in Digits \cup {"_"}}

\* the developer-build shape read widely: qt, a version, _dev (qt6_5_0_dev)
WideDevShape(name) == \E v \in VersionLooking : StartsWith(name, "qt" \o v \o "_dev")

\* the developer-build shape read narrowly: qt, one digit, _dev (qt5_dev)
NarrowDevShape(name) == \E d \in Digits : StartsWith(name, "qt" \o d \o "_dev")

\* the unsupported shape: qt6, then two numbers of one or two digits (qt6_7_3)
UnsupportedShape(name) ==
    \E a \in ShortNumbers : \E d \in Digits :
        StartsWith(name, "qt6_" \o a \o "_" \o d)

\* what the rules give for a name, dev the reading of the developer-build shape
RulesGive(name, dev) ==
    IF dev \/ HasSubstring(name, "backup") \/ HasSubstring(name, "preview")
          \/ UnsupportedShape(name)
    THEN FALSE
    ELSE \/ StartsWith(name, "tools_")
         \/ StartsWith(name, "qt")
         \/ name = "sdktool"

\* C14, relevance rules, as stated: is_qt_or_tools is false for every name of
\* the developer-build shape, a version-looking prefix followed by _dev such
\* as qt6_5_0_dev, for every name containing backup or preview, and for every
\* name of the unsupported shape; for any other name it is true iff the name
\* starts with tools_ or qt or is on the allow-list.
C14_RulesWithAnyVersion ==
    call.state = "classified" =>
        /\ call.relevant = RulesGive(call.name, WideDevShape(call.name))
        /\ call.name \in {"qt6_5_0_dev", "qt6_5_0-backup"} => ~call.relevant

\* C14 amended: the same with the developer-build shape being qt, one digit
\* and _dev; qt6_5_0_dev is rejected too, having the unsupported shape.
C14_RulesWithOneDigit ==
    call.state = "classified" =>
        /\ call.relevant = RulesGive(call.name, NarrowDevShape(call.name))
        /\ call.name \in {"qt6_5_0_dev", "qt6_5_0-backup"} => ~call.relevant

\* qt6_5_0_dev has been classified: rejected, though not by DEV_REGEX
C14_Witness ==
    /\ call.state = "classified"
    /\ call.name = "qt6_5_0_dev"
    /\ ~call.relevant
    /\ ~NarrowDevShape(call.name)
    /\ UnsupportedShape(call.name)

\* the archive names of a text, by hand
ArchiveNames(text) ==
    CASE text = "a.7z,b.7z" -> <<"a.7z", "b.7z">>
      [] text = "b.7z, a.7z" -> <<"b.7z", "a.7z">>
      [] text = "c.7z" -> <<"c.7z">>
      [] text = "a.7z," -> <<"a.7z", "">>

\* the element has an UpdateFile child and a DownloadableArchives child with text
HasArchives(element) == element.update_file /\ element.downloads /\ element.text # ""

\* the last element of the document with the name that has archives
LastWithArchives(doc, name) ==
    doc[CHOOSE i \in 1..Len(doc) :
            /\ doc[i].Name = name /\ HasArchives(doc[i])
            /\ \A j \in (i + 1)..Len(doc) : ~(doc[j].Name = name /\ HasArchives(doc[j]))]

ListedOn(rt, url) ==
    {TreePage(rt, url)[i] : i \in {j \in 1..Len(TreePage(rt, url)) :
                                      TreePage(rt, url)[j].name # "Parent Directory"}}

\* the pages the call fetched
FetchedPages == {tree_call.walk.fetched[i] : i \in 1..Len(tree_call.walk.fetched)}

\* the largest of a non-empty set of dates
Latest(dates) == CHOOSE d \in dates : \A e \in dates : e <= d

\* C16, global maximum timestamp: the date fetch_file_directory returns is the
\* largest of the cutoff passed in and the dates of all entries listed on
\* the pages the walk fetched, at every depth, reused entries included.
C16_GlobalMaximum ==
    tree_call.state = "returned" =>
        tree_call.walk.most_recent =
            Latest({tree_call.last_update}
                   \cup UNION {{row.date : row \in ListedOn(tree_call.rt, url)} :
                               url \in FetchedPages})

\* the date returned is that of g, two levels down, newer than the cutoff and
\* than every entry of the top page, in a walk that took an entry from the
\* previous tree
C16_Witness ==
    /\ tree_call.state = "returned"
    /\ tree_call.rt.has_b
    /\ TreeRootFolder \o "/a/b/" \in FetchedPages
    /\ tree_call.walk.most_recent = tree_call.rt.g
    /\ tree_call.rt.g > tree_call.last_update
    /\ tree_call.rt.g > tree_call.rt.a
    /\ tree_call.rt.g > tree_call.rt.r
    /\ tree_call.rt.g > tree_call.rt.f
    /\ tree_call.rt.g > tree_call.rt.b
    /\ tree_call.walk.reused # {}

\* the node of a tree for the page at url
NodeAt(tree, url) ==
    IF url = TreeRootFolder \o "/" THEN tree ELSE ValueAt(tree, PathTo(url))

\* on every fetched page, the node's keys are the names the page lists
KeysAsListed ==
    \A url \in FetchedPages :
        DOMAIN NodeAt(tree_call.content, url)
            = {row.name : row \in ListedOn(tree_call.rt, url)}

\* an entry taken from the previous tree has the value it had there
ReusedAsBefore ==
    \A url \in FetchedPages : \A row \in ListedOn(tree_call.rt, url) :
        (url \o row.name) \in tree_call.walk.reused =>
            /\ HasPath(tree_call.existing_dict, PathTo(url \o row.name))
            /\ NodeAt(tree_call.content, url)[row.name]
                  = ValueAt(tree_call.existing_dict, PathTo(url \o row.name))

\* C17 as stated, rebuilt tree mirrors the remote at every fetched level: the
\* keys of every node whose page was fetched are the names listed on the
\* page, every listed file maps to its size label, and a reused entry maps
\* to the value it had in the previous tree.
C17_MirrorsRemote ==
    tree_call.state = "returned" =>
        /\ KeysAsListed
        /\ ReusedAsBefore
        /\ \A url \in FetchedPages : \A row \in ListedOn(tree_call.rt, url) :
              ~EndsWith(row.name, "/") =>
                  NodeAt(tree_call.content, url)[row.name] = row.size

\* C17, amended: the keys of every node whose page was fetched are the names
\* listed on the page, so that no key of the previous tree that is no longer
\* listed survives there; a listed file that is not reused maps to its size
\* label, and a reused entry, file or folder, maps to the value it had in
\* the previous tree.
C17_MirrorsRemoteOrPrevious ==
    tree_call.state = "returned" =>
        /\ KeysAsListed
        /\ ReusedAsBefore
        /\ \A url \in FetchedPages : \A row \in ListedOn(tree_call.rt, url) :
              (~EndsWith(row.name, "/") /\ (url \o row.name) \notin tree_call.walk.reused) =>
                  NodeAt(tree_call.content, url)[row.name] = row.size

\* a/ was fetched: b/, a key of the previous tree no longer listed, is gone;
\* f was reused with the label of the previous tree, which is not the label
\* the page shows; r, not reused, has the label its page shows
C17_Witness ==
    /\ tree_call.state = "returned"
    /\ TreeRootFolder \o "/a/" \in FetchedPages
    /\ "a/" \in DOMAIN tree_call.existing_dict
    /\ "b/" \in DOMAIN tree_call.existing_dict["a/"]
    /\ ~tree_call.rt.has_b
    /\ DOMAIN tree_call.content["a/"] = {"f"}
    /\ TreeRootFolder \o "/a/f" \in tree_call.walk.reused
    /\ tree_call.content["a/"]["f"] = tree_call.existing_dict["a/"]["f"]
    /\ tree_call.content["a/"]["f"] # SizeLabel(tree_call.rt.f)
    /\ TreeRootFolder \o "/r" \notin tree_call.walk.reused
    /\ tree_call.content["r"] = SizeLabel(tree_call.rt.r)

\* the walk of a returned call fetched the root page, no page twice, the
\* page of every folder listed on a fetched page that was not reused, and no
\* other page: none of a reused folder, none below one
OneFetchEach ==
    tree_call.state = "returned" =>
        /\ TreeRootFolder \o "/" \in FetchedPages
        /\ Len(tree_call.walk.fetched) = Cardinality(FetchedPages)
        /\ \A url \in FetchedPages : \A row \in ListedOn(tree_call.rt, url) :
              EndsWith(row.name, "/") =>
                  ((url \o row.name) \in FetchedPages
                      <=> (url \o row.name) \notin tree_call.walk.reused)
        /\ \A url \in FetchedPages \ {TreeRootFolder \o "/"} :
              /\ url \notin tree_call.walk.reused
              /\ \E parent \in FetchedPages : \E row \in ListedOn(tree_call.rt, parent) :
                    url = parent \o row.name

\* the folders of a remote tree, the root included
FoldersOf(rt) == IF rt.has_b THEN 3 ELSE 2

\* C18, one fetch per non-reused directory: the walk of every call of
\* fetch_file_directory on a remote tree of the model ends, after a number of
\* fetches that begins with the root page and is at most the number of
\* folders of the tree; when the call has returned, its walk has fetched the
\* page of the root and of each folder entry that is not reused exactly
\* once, and no page of a folder within a reused subtree.
C18_OneFetchPerDirectory ==
    /\ tree_call.state = "called" =>
          LET got == fetch_file_directory(tree_call.rt, tree_call.existing_dict,
                                          tree_call.last_update, tree_call.required_depth)
          IN  /\ Len(got.walk.fetched) \in 1..FoldersOf(tree_call.rt)
              /\ Head(got.walk.fetched) = TreeRootFolder \o "/"
    /\ OneFetchEach
    /\ tree_call.state = "returned" =>
          Len(tree_call.walk.fetched) <= FoldersOf(tree_call.rt)

\* the walk fetched the root and a/, each once, and not b/, listed under a/
\* and reused
C18_Witness ==
    /\ tree_call.state = "returned"
    /\ tree_call.rt.has_b
    /\ tree_call.walk.fetched = <<TreeRootFolder \o "/", TreeRootFolder \o "/a/">>
    /\ TreeRootFolder \o "/a/b/" \in tree_call.walk.reused

\* the folders of the tree in depth-first listing order, written out
AllDepthFirst ==
    <<"qt1", "qt1/qt_a", "qt1/qt_a/qt_x", "qt1/qt_a/src", "qt1/qt_a_preview",
      "qt1/qt_b", "qt1/qt_b/qt_y">>

\* those reached from the entry through names the listing parser yields
AcceptedDepthFirst ==
    <<"qt1", "qt1/qt_a", "qt1/qt_a/qt_x", "qt1/qt_b", "qt1/qt_b/qt_y">>

\* the folder has Updates.xml and no folder above it has
FirstWithXml(path) ==
    /\ path \in call.with_xml
    /\ \A above \in call.with_xml : ~StartsWith(path, above \o "/")

\* no page below a folder with Updates.xml was fetched, and none twice
NothingBelowXml ==
    /\ \A i \in 1..Len(call.fetched) : \A above \in call.with_xml :
          ~StartsWith(call.fetched[i], above \o "/")
    /\ Cardinality(ToSet(call.fetched)) = Len(call.fetched)
    /\ Len(call.fetched) \in 1..Len(AllDepthFirst)

CutoffOfRun == get_last_update_dates(start_disk.last_updated)["online"]

\* the entries of partition p's listing the run handled, and whether it
\* reused them: dated at or before the cutoff and in the previous index
HandledRows(p) == ToSet(iter_folders(TopListing(remote[p], p)))

ReusedRow(p, row) ==
    /\ row.date <= CutoffOfRun
    /\ \E f \in Indexed(start_disk.directory[p]) :
          f = row.folder \/ StartsWith(f, row.folder \o "/")

\* the folder was added in the run: an entry that was not reused leads to it
\* and its manifest has packages
AddedInRun(p, folder) ==
    \E row \in HandledRows(p) :
        /\ ~ReusedRow(p, row)
        /\ folder \in ToSet(spider_folder(remote[p], row.folder))
        /\ DOMAIN Manifest(remote[p], folder) # {}

\* the folder is a reused entry of the listing or lies under one
UnderReusedEntry(p, folder) ==
    \E row \in HandledRows(p) :
        /\ ReusedRow(p, row)
        /\ folder = row.folder \/ StartsWith(folder, row.folder \o "/")

\* C20, the new index lists only confirmed folders: after a complete run,
\* every folder in a partition's directory.json was added by add_folder in
\* the run or is, or is nested under, an entry of the run's remote listing
\* that was reused; a folder that only shares a string prefix with a reused
\* entry is not in the new index.
C20_OnlyConfirmedFolders ==
    RunComplete =>
        \A p \in PartitionIds : \A folder \in Indexed(directory_json[p]) :
            AddedInRun(p, folder) \/ UnderReusedEntry(p, folder)

\* the manifest cache files of partition p the step removes
Unlinked(p) == {f \in DOMAIN manifest_json[p] : f \notin DOMAIN manifest_json'[p]}

\* the folder is in a previous set of cache_dir and not in the new set that
\* goes with it
DroppedFromIndex(f) ==
    \/ f \in cache_dir.previous_qt /\ f \notin cache_dir.new_qt
    \/ f \in cache_dir.previous_tools /\ f \notin cache_dir.new_tools

\* C21, prune never deletes live data: a step that removes a manifest cache
\* file removes that of a folder of the partition being pruned that is in a
\* previous set and not in the corresponding new set, and of no folder of
\* the new index as held in memory or as written to directory.json; no step
\* of prune_removed_files changes directory.json or, while the run goes on,
\* the previous and new sets.
C21_PruneKeepsLiveData ==
    [][/\ \A p \in PartitionIds : \A f \in Unlinked(p) :
             /\ pc = "prune"
             /\ p = part
             /\ DroppedFromIndex(f)
             /\ f \notin cache_dir.new_qt \cup cache_dir.new_tools
             /\ f \notin Indexed(directory_json[p])
             /\ f \notin Indexed(directory_json'[p])
       /\ pc = "prune" =>
             /\ directory_json' = directory_json
             /\ pc' # "aborted" => cache_dir' = cache_dir]_vars

\* prune_removed_files has removed the file of qt1, dropped from the index,
\* and kept that of qt12, reused, and that of qt1/qt_a, written in this run
C21_Witness ==
    /\ pc = "prune"
    /\ part = 1
    /\ to_prune = NoPrune
    /\ "qt1" \in cache_dir.previous_qt \ cache_dir.new_qt
    /\ "qt1" \in DOMAIN start_disk.manifests[1]
    /\ "qt1" \notin DOMAIN manifest_json[1]
    /\ "qt12" \in cache_dir.previous_qt \cap cache_dir.new_qt
    /\ "qt12" \in DOMAIN manifest_json[1]
    /\ "qt1/qt_a" \in cache_dir.new_qt \ cache_dir.previous_qt
    /\ "qt1/qt_a" \in DOMAIN manifest_json[1]
    /\ directory_json[1].qt = <<"qt1/qt_a", "qt12">>

\* the run under way started right after a complete run, the remote trees
\* as that run saw them
QuietRerun == history.quiet /\ Running

\* the previous run indexed a manifest folder for the listing entry: the
\* entry itself or a folder below it
IndexedFor(p, folder) ==
    \E f \in Indexed(start_disk.directory[p]) :
        f = folder \/ StartsWith(f, folder \o "/")

\* the step fetches a page for a listing entry: a spider listing, a
\* manifest or an archive-size listing
FetchForEntry ==
    \/ pc = "spider" /\ stack # <<>>
    \/ pc = "manifest"
    \/ pc = "sizes" /\ FetchesArchiveSizes(content)

\* C22, no redundant manifest fetches on a quiet re-run: in a run that
\* follows a complete run over unchanged remote trees, a listing entry for
\* which the previous run indexed a manifest folder is taken from the cache
\* and no spider, manifest or archive-size page is fetched for it; every
\* such fetch of the run is for an entry that has nothing indexed, and no
\* manifest it fetches has a package.
C22_QuietRerunFetchesNothingIndexed ==
    [][QuietRerun =>
        /\ (EntryStep /\ IndexedFor(part, Head(rows).folder)) => HandledFromCache
        /\ FetchForEntry => ~IndexedFor(part, entry.folder)
        /\ pc = "manifest" => DOMAIN Manifest(remote[part], xml_folder) = {}
        /\ pc # "sizes"
        /\ manifest_json' = manifest_json
        /\ directory_json' = start_disk.directory]_vars

====
